---- MODULE Spec2Model ----
(***************************************************************************)
(* The x/auth account keeper (src/x/auth/keeper/keeper.go): the global     *)
(* account-number counter, the address -> account entries, the             *)
(* number -> address index, the permission table built at construction and *)
(* the module-account operations, run by callers inside transactional      *)
(* scopes over one persisted store.                                        *)
(***************************************************************************)
EXTENDS Integers, Sequences, FiniteSets, TLC

(***************************************************************************)
(* Bounds of the model.                                                    *)
(***************************************************************************)
\* Width, in bits, the model gives the unsigned counter (uint64 in the code).
UintBits == 3
\* Number of keeper calls explored in one run.
MaxCalls == 6
\* Number of keeper calls explored in one run of racing callers.
MaxRaceCalls == 4
\* Longest permission list a caller passes in.
MaxPerms == 2
\* Number of callers that may hold a transactional scope at the same time.
NumProcs == 2
\* Largest account number of an account a caller builds by hand.
MaxAccountNumber == 1

Modulus == 2 ^ UintBits
MaxUint == Modulus - 1
Procs == 1 .. NumProcs

(***************************************************************************)
(* Values.                                                                 *)
(***************************************************************************)
\* A nil sdk.AccAddress.
NilAddress == ""
\* A nil cryptotypes.PubKey.
NilPubKey == ""
\* A nil error.
NilError == ""
ErrUnknownAddress == "unknown address"
ErrInvalidPermission == "invalid module permission"
ErrNilInterface == "can't proto marshal nil"
ErrDecode == "decode error"

\* maccPerms, the configuration handed to NewAccountKeeper.
maccPerms == [fee_collector |-> <<"burner">>]
\* Module names callers ask for: the configured ones and one that is not.
ModuleNames == (DOMAIN maccPerms) \cup {"ghost"}
Permissions == {"burner", "minter", "staking"}
UserAddrs == {"user1"}

\* types.NewModuleAddress: the address derived from the module name.
NewModuleAddress(name) ==
    CASE name = "fee_collector" -> "hash(fee_collector)"
      [] name = "ghost" -> "hash(ghost)"

\* A nil types.AccountI.
NoAccount ==
    [kind |-> "nil", address |-> NilAddress, accountNumber |-> 0, sequence |-> 0,
     pubKey |-> NilPubKey, name |-> "", permissions |-> <<>>]

\* The prototype account of the keeper (ak.proto()): an empty base account.
ProtoBaseAccount == [NoAccount EXCEPT !.kind = "base"]

\* types.NewEmptyModuleAccount(name, permissions...).
NewEmptyModuleAccount(name, perms) ==
    [kind |-> "module", address |-> NewModuleAddress(name), accountNumber |-> 0,
     sequence |-> 0, pubKey |-> NilPubKey, name |-> name, permissions |-> perms]

\* All permission lists of length at most n.
RECURSIVE PermLists(_)
PermLists(n) ==
    IF n = 0 THEN {<<>>}
    ELSE LET shorter == PermLists(n - 1)
         IN shorter \cup {Append(s, x) : s \in {t \in shorter : Len(t) = n - 1}, x \in Permissions}

\* The set of elements of a sequence.
Range(s) == {s[i] : i \in DOMAIN s}

(***************************************************************************)
(* The key-value store under ctx.KVStore(ak.key): the global counter       *)
(* entry, the address -> account entries, the number -> address index, and *)
(* the keys written through this branch of the store.                      *)
(***************************************************************************)
CounterKey == <<"globalAccountNumber">>
AddressStoreKey(addr) == <<"account", addr>>
AccountNumberStoreKey(n) == <<"accountByNumber", n>>

EmptyStore == [counter |-> <<>>, accounts |-> <<>>, byNumber |-> <<>>, writes |-> {}]

Put(f, k, v) == [x \in (DOMAIN f) \cup {k} |-> IF x = k THEN v ELSE f[x]]
Del(f, k) == [x \in (DOMAIN f) \ {k} |-> f[x]]

\* The counter the store holds, an absent one read as zero.
CounterValue(kv) == IF kv.counter = <<>> THEN 0 ELSE kv.counter[1]

\* HasAccount: a direct key lookup.
HasAccount(kv, addr) == addr \in DOMAIN kv.accounts

\* GetAccount: the decoded account at addr, nil when there is none.
GetAccount(kv, addr) == IF addr \in DOMAIN kv.accounts THEN kv.accounts[addr] ELSE NoAccount

\* GetAccountAddressByID: the address the index holds for a number.
GetAccountAddressByID(kv, n) == IF n \in DOMAIN kv.byNumber THEN kv.byNumber[n] ELSE NilAddress

\* SetAccount: writes the entry at the account's address and the index entry
\* of its number.
SetAccount(kv, acc) ==
    [kv EXCEPT !.accounts = Put(@, acc.address, acc),
               !.byNumber = Put(@, acc.accountNumber, acc.address),
               !.writes = @ \cup {AddressStoreKey(acc.address),
                                  AccountNumberStoreKey(acc.accountNumber)}]

\* RemoveAccount: deletes the entry at the account's address and the index
\* entry of its number.
RemoveAccount(kv, acc) ==
    [kv EXCEPT !.accounts = Del(@, acc.address),
               !.byNumber = Del(@, acc.accountNumber),
               !.writes = @ \cup {AddressStoreKey(acc.address),
                                  AccountNumberStoreKey(acc.accountNumber)}]

(***************************************************************************)
(* The permission table built by NewAccountKeeper.                         *)
(***************************************************************************)
\* types.NewPermissionsForAddress(name, permissions).
NewPermissionsForAddress(name, perms) ==
    [address |-> NewModuleAddress(name), permissions |-> perms]

\* ak.permAddrs, as NewAccountKeeper fills it from maccPerms.
permAddrs == [name \in DOMAIN maccPerms |-> NewPermissionsForAddress(name, maccPerms[name])]

\* ak.permAddrs[name] read without the ok flag: the zero value for a name
\* the map does not hold.
PermAddrsAt(name) ==
    IF name \in DOMAIN permAddrs THEN permAddrs[name]
    ELSE [address |-> NilAddress, permissions |-> <<>>]

\* PermissionsForAddress.HasPermission.
HasPermission(permAddr, perm) ==
    \E i \in DOMAIN permAddr.permissions : permAddr.permissions[i] = perm

(***************************************************************************)
(* The keeper's operations, each on the store view of the calling scope.   *)
(***************************************************************************)
\* Variant: an absent counter is initialised to 1 instead of 0.
GetNextAccountNumberFromOne(kv) ==
    LET accNumber == IF kv.counter = <<>> THEN 1 ELSE kv.counter[1]
    IN  [store |-> [kv EXCEPT !.counter = <<(accNumber + 1) % Modulus>>,
                              !.writes = @ \cup {CounterKey}],
         ret |-> accNumber]

\* Variant: the counter is returned but the incremented value is not stored.
GetNextAccountNumberNoStore(kv) ==
    [store |-> kv, ret |-> IF kv.counter = <<>> THEN 0 ELSE kv.counter[1]]

\* Variant: the lowest number without an index entry is handed out, so the
\* number of a removed account is free again.
GetNextAccountNumberReuse(kv) ==
    LET accNumber == CHOOSE n \in 0 .. MaxUint :
                        /\ n \notin DOMAIN kv.byNumber
                        /\ \A m \in 0 .. MaxUint : m \notin DOMAIN kv.byNumber => n <= m
    IN  [store |-> [kv EXCEPT !.counter = <<(accNumber + 1) % Modulus>>,
                              !.writes = @ \cup {CounterKey}],
         ret |-> accNumber]

\* Variant: the number handed out is reserved in the number -> address index
\* straight away.
GetNextAccountNumberReserve(kv) ==
    LET accNumber == IF kv.counter = <<>> THEN 0 ELSE kv.counter[1]
    IN  [store |-> [kv EXCEPT !.counter = <<(accNumber + 1) % Modulus>>,
                              !.byNumber = Put(@, accNumber, NilAddress),
                              !.writes = @ \cup {CounterKey, AccountNumberStoreKey(accNumber)}],
         ret |-> accNumber]

\* GetNextAccountNumber: returns the counter and stores counter + 1 (uint64
\* arithmetic); an absent counter reads as 0. The counter entry is always one
\* the keeper marshalled, so the panic on a failed Unmarshal does not arise.
GetNextAccountNumber(kv) ==
    LET accNumber == IF kv.counter = <<>> THEN 0 ELSE kv.counter[1]
    IN  [store |-> [kv EXCEPT !.counter = <<(accNumber + 1) % Modulus>>,
                              !.writes = @ \cup {CounterKey}],
         ret |-> accNumber]

\* NewAccount: the given account with the next account number; not saved.
NewAccount(kv, acc) ==
    LET next == GetNextAccountNumber(kv)
    IN  [store |-> next.store, ret |-> [acc EXCEPT !.accountNumber = next.ret]]

\* NewAccountWithAddress: a prototype account at addr with the next account
\* number; not saved.
NewAccountWithAddress(kv, addr) ==
    NewAccount(kv, [ProtoBaseAccount EXCEPT !.address = addr])

\* GetPubKey.
GetPubKey(kv, addr) ==
    LET acc == GetAccount(kv, addr)
    IN  IF acc = NoAccount THEN [val |-> NilPubKey, err |-> ErrUnknownAddress]
        ELSE [val |-> acc.pubKey, err |-> NilError]

\* Variant: a missing account reads as sequence 0 with no error.
GetSequenceZeroDefault(kv, addr) ==
    [val |-> GetAccount(kv, addr).sequence, err |-> NilError]

\* GetSequence.
GetSequence(kv, addr) ==
    LET acc == GetAccount(kv, addr)
    IN  IF acc = NoAccount THEN [val |-> 0, err |-> ErrUnknownAddress]
        ELSE [val |-> acc.sequence, err |-> NilError]

\* Variant: a name the table does not hold is not checked.
ValidatePermissionsUnknownOk(macc) ==
    LET permAddr == PermAddrsAt(macc.name)
        bad == {i \in DOMAIN macc.permissions : ~HasPermission(permAddr, macc.permissions[i])}
    IN  IF bad = {} \/ macc.name \notin DOMAIN permAddrs THEN [err |-> NilError, perm |-> ""]
        ELSE [err |-> ErrInvalidPermission,
              perm |-> macc.permissions[CHOOSE i \in bad : \A j \in bad : i <= j]]

\* ValidatePermissions: the error names the first permission of the account
\* that the table does not grant to its name.
ValidatePermissions(macc) ==
    LET permAddr == PermAddrsAt(macc.name)
        bad == {i \in DOMAIN macc.permissions : ~HasPermission(permAddr, macc.permissions[i])}
    IN  IF bad = {} THEN [err |-> NilError, perm |-> ""]
        ELSE [err |-> ErrInvalidPermission,
              perm |-> macc.permissions[CHOOSE i \in bad : \A j \in bad : i <= j]]

\* GetModuleAddress.
GetModuleAddress(moduleName) ==
    IF moduleName \notin DOMAIN permAddrs THEN NilAddress
    ELSE permAddrs[moduleName].address

\* Variant: the address is derived for any name, in the table or not.
GetModuleAddressAndPermissionsAnyName(moduleName) ==
    [addr |-> NewModuleAddress(moduleName),
     permissions |-> PermAddrsAt(moduleName).permissions]

\* GetModuleAddressAndPermissions.
GetModuleAddressAndPermissions(moduleName) ==
    IF moduleName \notin DOMAIN permAddrs THEN [addr |-> NilAddress, permissions |-> <<>>]
    ELSE [addr |-> permAddrs[moduleName].address,
          permissions |-> permAddrs[moduleName].permissions]

\* Variant: an account already stored at the address is kept.
SetModuleAccountKeepFirst(kv, macc) ==
    IF HasAccount(kv, macc.address) THEN kv ELSE SetAccount(kv, macc)

\* SetModuleAccount.
SetModuleAccount(kv, macc) == SetAccount(kv, macc)

\* Variant: the stored account is not looked up; an account is created on
\* every call.
GetModuleAccountAndPermissionsAlwaysCreate(kv, moduleName) ==
    LET ap == GetModuleAddressAndPermissions(moduleName)
        created == NewAccount(kv, NewEmptyModuleAccount(moduleName, ap.permissions))
    IN  IF ap.addr = NilAddress
        THEN [store |-> kv, macc |-> NoAccount, perms |-> <<>>, panicked |-> FALSE]
        ELSE [store |-> SetModuleAccount(created.store, created.ret),
              macc |-> created.ret, perms |-> ap.permissions, panicked |-> FALSE]

\* Variant: a stored account that is no module account is replaced by a new
\* module account instead of panicking.
GetModuleAccountAndPermissionsNoCast(kv, moduleName) ==
    LET ap == GetModuleAddressAndPermissions(moduleName)
        acc == GetAccount(kv, ap.addr)
        created == NewAccount(kv, NewEmptyModuleAccount(moduleName, ap.permissions))
    IN  IF ap.addr = NilAddress
        THEN [store |-> kv, macc |-> NoAccount, perms |-> <<>>, panicked |-> FALSE]
        ELSE IF acc # NoAccount /\ acc.kind = "module"
        THEN [store |-> kv, macc |-> acc, perms |-> ap.permissions, panicked |-> FALSE]
        ELSE [store |-> SetModuleAccount(created.store, created.ret),
              macc |-> created.ret, perms |-> ap.permissions, panicked |-> FALSE]

\* Variant: the account created is numbered and returned but not saved.
GetModuleAccountAndPermissionsUnsaved(kv, moduleName) ==
    LET ap == GetModuleAddressAndPermissions(moduleName)
        acc == GetAccount(kv, ap.addr)
        created == NewAccount(kv, NewEmptyModuleAccount(moduleName, ap.permissions))
    IN  IF ap.addr = NilAddress
        THEN [store |-> kv, macc |-> NoAccount, perms |-> <<>>, panicked |-> FALSE]
        ELSE IF acc # NoAccount
        THEN IF acc.kind # "module"
             THEN [store |-> kv, macc |-> NoAccount, perms |-> <<>>, panicked |-> TRUE]
             ELSE [store |-> kv, macc |-> acc, perms |-> ap.permissions, panicked |-> FALSE]
        ELSE [store |-> created.store,
              macc |-> created.ret, perms |-> ap.permissions, panicked |-> FALSE]

\* Variant: with a stored module account, the permissions that account
\* carries are returned.
GetModuleAccountAndPermissionsStoredPerms(kv, moduleName) ==
    LET ap == GetModuleAddressAndPermissions(moduleName)
        acc == GetAccount(kv, ap.addr)
        created == NewAccount(kv, NewEmptyModuleAccount(moduleName, ap.permissions))
    IN  IF ap.addr = NilAddress
        THEN [store |-> kv, macc |-> NoAccount, perms |-> <<>>, panicked |-> FALSE]
        ELSE IF acc # NoAccount
        THEN IF acc.kind # "module"
             THEN [store |-> kv, macc |-> NoAccount, perms |-> <<>>, panicked |-> TRUE]
             ELSE [store |-> kv, macc |-> acc, perms |-> acc.permissions, panicked |-> FALSE]
        ELSE [store |-> SetModuleAccount(created.store, created.ret),
              macc |-> created.ret, perms |-> ap.permissions, panicked |-> FALSE]

\* GetModuleAccountAndPermissions: the stored module account, or a new one
\* with the next account number, saved; panics on a stored account that is
\* no module account.
GetModuleAccountAndPermissions(kv, moduleName) ==
    LET ap == GetModuleAddressAndPermissions(moduleName)
        acc == GetAccount(kv, ap.addr)
        created == NewAccount(kv, NewEmptyModuleAccount(moduleName, ap.permissions))
    IN  IF ap.addr = NilAddress
        THEN [store |-> kv, macc |-> NoAccount, perms |-> <<>>, panicked |-> FALSE]
        ELSE IF acc # NoAccount
        THEN IF acc.kind # "module"
             THEN [store |-> kv, macc |-> NoAccount, perms |-> <<>>, panicked |-> TRUE]
             ELSE [store |-> kv, macc |-> acc, perms |-> ap.permissions, panicked |-> FALSE]
        ELSE [store |-> SetModuleAccount(created.store, created.ret),
              macc |-> created.ret, perms |-> ap.permissions, panicked |-> FALSE]

\* GetModuleAccount.
GetModuleAccount(kv, moduleName) ==
    LET r == GetModuleAccountAndPermissions(kv, moduleName)
    IN  [store |-> r.store, macc |-> r.macc, panicked |-> r.panicked]

(***************************************************************************)
(* The account codec: an envelope that names the concrete type and holds   *)
(* the encoding of its fields; a field at its default value is not encoded *)
(* and reads back as the default.                                          *)
(***************************************************************************)
BaseAccountTypeURL == "/cosmos.auth.v1beta1.BaseAccount"
ModuleAccountTypeURL == "/cosmos.auth.v1beta1.ModuleAccount"

\* The encoding of a field: nothing for the default value.
EncodeField(v, default) == IF v = default THEN <<>> ELSE <<v>>
DecodeField(f, default) == IF f = <<>> THEN default ELSE f[1]

\* No bytes.
NoBytes ==
    [typeURL |-> "", address |-> <<>>, pubKey |-> <<>>, accountNumber |-> <<>>,
     sequence |-> <<>>, name |-> <<>>, permissions |-> <<>>]

\* Bytes no account was encoded to: an envelope of a type the keeper's codec
\* does not know.
ForeignBytes == {[NoBytes EXCEPT !.typeURL = "/cosmos.vesting.v1beta1.Unknown",
                                 !.address = <<"user1">>]}

\* cdc.MarshalInterface: the envelope of the account's concrete type.
MarshalInterface(acc) ==
    IF acc.kind = "nil" THEN [bz |-> NoBytes, err |-> ErrNilInterface]
    ELSE [bz |-> [typeURL |-> IF acc.kind = "module" THEN ModuleAccountTypeURL
                              ELSE BaseAccountTypeURL,
                  address |-> EncodeField(acc.address, NilAddress),
                  pubKey |-> EncodeField(acc.pubKey, NilPubKey),
                  accountNumber |-> EncodeField(acc.accountNumber, 0),
                  sequence |-> EncodeField(acc.sequence, 0),
                  name |-> IF acc.kind = "module" THEN EncodeField(acc.name, "") ELSE <<>>,
                  permissions |-> IF acc.kind = "module" THEN acc.permissions ELSE <<>>],
          err |-> NilError]

\* cdc.UnmarshalInterface: dispatches on the type the envelope names.
UnmarshalInterface(bz) ==
    IF bz.typeURL \notin {BaseAccountTypeURL, ModuleAccountTypeURL}
    THEN [acc |-> NoAccount, err |-> ErrDecode]
    ELSE [acc |-> [kind |-> IF bz.typeURL = ModuleAccountTypeURL THEN "module" ELSE "base",
                   address |-> DecodeField(bz.address, NilAddress),
                   accountNumber |-> DecodeField(bz.accountNumber, 0),
                   sequence |-> DecodeField(bz.sequence, 0),
                   pubKey |-> DecodeField(bz.pubKey, NilPubKey),
                   name |-> IF bz.typeURL = ModuleAccountTypeURL
                            THEN DecodeField(bz.name, "") ELSE "",
                   permissions |-> IF bz.typeURL = ModuleAccountTypeURL
                                   THEN bz.permissions ELSE <<>>],
          err |-> NilError]

\* Variant: every account is encoded as a base account.
MarshalAccountAsBase(accountI) ==
    MarshalInterface(IF accountI.kind = "nil" THEN accountI
                     ELSE [accountI EXCEPT !.kind = "base"])

\* MarshalAccount.
MarshalAccount(accountI) == MarshalInterface(accountI)

\* UnmarshalAccount.
UnmarshalAccount(bz) == UnmarshalInterface(bz)

(***************************************************************************)
(* Genesis.                                                                *)
(***************************************************************************)
\* The addresses in the order of their store keys.
AddressOrder == <<"hash(fee_collector)", "hash(ghost)", "user1">>

\* ExportGenesis: every stored account, in stored order.
ExportGenesis(kv) ==
    LET RECURSIVE Collect(_)
        Collect(i) ==
            IF i > Len(AddressOrder) THEN <<>>
            ELSE (IF HasAccount(kv, AddressOrder[i])
                  THEN <<GetAccount(kv, AddressOrder[i])>> ELSE <<>>) \o Collect(i + 1)
    IN  Collect(1)

\* The store's import path: each record is put, in order.
RECURSIVE ImportAll(_, _)
ImportAll(kv, accounts) ==
    IF accounts = <<>> THEN kv
    ELSE ImportAll(SetAccount(kv, Head(accounts)), Tail(accounts))

\* InitGenesis: replays the records through the import path, sets the
\* counter one past the highest imported account number, then validates the
\* permissions of every module account; a failed validation is fatal.
InitGenesis(kv, accounts) ==
    LET put == ImportAll(kv, accounts)
        nums == {accounts[i].accountNumber : i \in DOMAIN accounts}
        highest == CHOOSE n \in nums : \A m \in nums : m <= n
        done == IF nums = {} THEN put
                ELSE [put EXCEPT !.counter = <<(highest + 1) % Modulus>>,
                                 !.writes = @ \cup {CounterKey}]
        bad == {i \in DOMAIN accounts :
                  /\ accounts[i].kind = "module"
                  /\ ValidatePermissions(accounts[i]).err # NilError}
    IN  IF bad # {} THEN [store |-> kv, panicked |-> TRUE]
        ELSE [store |-> done, panicked |-> FALSE]

(***************************************************************************)
(* The group module's conversions between its GroupMember and the ORM      *)
(* table row groupv1.GroupMember (src/x/group/orm.go). A time.Time is the  *)
(* instant it denotes, in nanoseconds since the epoch; a Timestamp is the  *)
(* pair of seconds and nanoseconds.                                        *)
(***************************************************************************)
NanosPerSecond == 1000000000

\* timestamppb.New(t): t.Unix() and t.Nanosecond().
TimestampNew(t) == [seconds |-> t \div NanosPerSecond, nanos |-> t % NanosPerSecond]

\* (*Timestamp).AsTime(): time.Unix(seconds, nanos).
AsTime(ts) == ts.seconds * NanosPerSecond + ts.nanos

\* The zero GroupMember, with a Member.
NoGroupMember ==
    [groupId |-> 0, memberAddress |-> "",
     member |-> [address |-> "", weight |-> "", metadata |-> "", addedAt |-> 0]]

\* The zero groupv1.GroupMember, with a Member.
NoPulsarGroupMember ==
    [groupId |-> 0, memberAddress |-> "",
     member |-> [address |-> "", weight |-> "", metadata |-> "",
                 addedAt |-> [seconds |-> 0, nanos |-> 0]]]

\* GroupMemberFromPulsar.
GroupMemberFromPulsar(groupMember) ==
    [groupId |-> groupMember.groupId,
     memberAddress |-> groupMember.member.address,
     member |-> [address |-> groupMember.member.address,
                 weight |-> groupMember.member.weight,
                 metadata |-> groupMember.member.metadata,
                 addedAt |-> AsTime(groupMember.member.addedAt)]]

\* GroupMemberToPulsar.
GroupMemberToPulsar(groupMember) ==
    [groupId |-> groupMember.groupId,
     memberAddress |-> groupMember.member.address,
     member |-> [address |-> groupMember.member.address,
                 weight |-> groupMember.member.weight,
                 metadata |-> groupMember.member.metadata,
                 addedAt |-> TimestampNew(groupMember.member.addedAt)]]

(***************************************************************************)
(* State.                                                                  *)
(*   store   the persisted (committed) store                               *)
(*   ctx     per caller, its transactional scope: the status, the view     *)
(*           (the snapshot taken when the scope began, with the scope's    *)
(*           own writes on top), the keys other scopes committed since,    *)
(*           and what the scope did: the account numbers it was handed,    *)
(*           the module names it created an account for, the account       *)
(*           numbers whose account it removed                              *)
(*   call    the last completed call: who made it, the operation, its      *)
(*           arguments and what it returned, the keys it wrote             *)
(*   issued  the account numbers handed out by committed scopes, in order  *)
(*   retired the account numbers whose account a committed scope removed   *)
(*   ncalls  the number of keeper calls made so far                        *)
(***************************************************************************)
VARIABLES store, ctx, call, issued, retired, ncalls

vars == <<store, ctx, call, issued, retired, ncalls>>

IdleScope ==
    [status |-> "idle", view |-> EmptyStore, stale |-> {}, allocs |-> <<>>,
     created |-> {}, removed |-> {}]

MkCall(p, op) ==
    [proc |-> p, op |-> op, name |-> "", addr |-> NilAddress, acct |-> NoAccount,
     num |-> 0, pubKey |-> NilPubKey, err |-> NilError, perms |-> <<>>,
     writes |-> {}, panicked |-> FALSE, genesis |-> <<>>, imported |-> EmptyStore,
     bz |-> NoBytes, decoded |-> NoAccount,
     gm |-> NoGroupMember, pulsar |-> NoPulsarGroupMember, gmOut |-> NoGroupMember]

Init ==
    /\ store = EmptyStore
    /\ ctx = [p \in Procs |-> IdleScope]
    /\ call = MkCall(0, "none")
    /\ issued = <<>>
    /\ retired = {}
    /\ ncalls = 0

\* A store left by an earlier run of the process: any counter the width can
\* hold, or none.
InitPersisted ==
    /\ store \in {[EmptyStore EXCEPT !.counter = c] : c \in {<<>>} \cup {<<n>> : n \in 0 .. MaxUint}}
    /\ ctx = [p \in Procs |-> IdleScope]
    /\ call = MkCall(0, "none")
    /\ issued = <<>>
    /\ retired = {}
    /\ ncalls = 0

IsOpen(p) == ctx[p].status = "open"

\* The view a call of p runs on, with an empty write log of its own.
Scratch(p) == [ctx[p].view EXCEPT !.writes = {}]

\* The scope of p after a call that left the view kv.
Ran(p, kv, nums, names, gone) ==
    [ctx EXCEPT ![p].view = [kv EXCEPT !.writes = ctx[p].view.writes \cup kv.writes],
                ![p].allocs = @ \o nums,
                ![p].created = @ \cup names,
                ![p].removed = @ \cup gone]

\* The scope of p once it has ended: its view is dropped.
Ended(p, status) == [ctx[p] EXCEPT !.status = status, !.view = EmptyStore, !.stale = {}]

\* A further call stays within the number of calls explored.
MayCall == ncalls < MaxCalls
Called == ncalls' = ncalls + 1

\* The accounts p holds in memory: what its last call took or returned, and
\* that account after signing (public key set, sequence bumped).
Signed(acc) == [acc EXCEPT !.pubKey = "pk", !.sequence = 1]
Held(p) ==
    IF call.proc = p /\ call.acct # NoAccount
    THEN {call.acct} \cup (IF call.acct.kind = "base" THEN {Signed(call.acct)} ELSE {})
    ELSE {}
HeldModuleAccounts(p) == {acc \in Held(p) : acc.kind = "module"}

\* Module accounts a caller builds itself: for any name, with any permission
\* list.
BuiltModuleAccounts ==
    {NewEmptyModuleAccount(n, ps) : n \in ModuleNames, ps \in PermLists(MaxPerms)}

\* Module accounts a caller builds to save: for a configured name, with the
\* permissions declared for it or with one that is not declared.
SavedModuleAccounts ==
    UNION {{NewEmptyModuleAccount(n, maccPerms[n]), NewEmptyModuleAccount(n, <<"minter">>)} :
             n \in DOMAIN maccPerms}

\* Accounts a caller builds to have them numbered: a base account at a user
\* address, the module account of a configured name.
Prototypes ==
    {[ProtoBaseAccount EXCEPT !.address = a] : a \in UserAddrs}
        \cup {NewEmptyModuleAccount(n, maccPerms[n]) : n \in DOMAIN maccPerms}

\* Accounts a caller builds by hand, account number included: base and
\* module accounts at the addresses in use.
NumberedAccounts ==
    {[acc EXCEPT !.accountNumber = n] :
        acc \in {[ProtoBaseAccount EXCEPT !.address = a] :
                    a \in UserAddrs \cup {NewModuleAddress(m) : m \in DOMAIN maccPerms}}
                \cup SavedModuleAccounts,
        n \in 0 .. MaxAccountNumber}

\* Accounts handed to the codec: base and module accounts with every field
\* at its default or not, and no account at all.
CodecAccounts ==
    {[kind |-> "base", address |-> a, accountNumber |-> n, sequence |-> s,
      pubKey |-> k, name |-> "", permissions |-> <<>>] :
        a \in {NilAddress} \cup UserAddrs, n \in 0 .. MaxAccountNumber,
        s \in 0 .. 1, k \in {NilPubKey, "pk"}}
    \cup {[NewEmptyModuleAccount(m, ps) EXCEPT !.accountNumber = n] :
            m \in ModuleNames, ps \in PermLists(MaxPerms), n \in 0 .. MaxAccountNumber}
    \cup {NoAccount}

\* Instants around the epoch and around a full second.
Instants == {-1, 0, 1, NanosPerSecond - 1, NanosPerSecond, NanosPerSecond + 1}

\* GroupMembers handed to the conversions, each with a Member; MemberAddress
\* is the member's address or another one.
GroupMembers ==
    {[groupId |-> g, memberAddress |-> ma,
      member |-> [address |-> a, weight |-> w, metadata |-> md, addedAt |-> t]] :
        g \in {1, 2}, ma \in {"user1", "user2"}, a \in {"user1", "user2"},
        w \in {"1", "2"}, md \in {"", "meta"}, t \in Instants}

\* Addresses callers use.
Addrs == UserAddrs \cup {NewModuleAddress(n) : n \in DOMAIN maccPerms}

\* The persisted store with the writes of a committing view applied.
Merge(base, kv) ==
    LET as == {a \in DOMAIN kv.accounts : AddressStoreKey(a) \in kv.writes}
             \cup {a \in DOMAIN base.accounts : AddressStoreKey(a) \notin kv.writes}
        ns == {n \in DOMAIN kv.byNumber : AccountNumberStoreKey(n) \in kv.writes}
             \cup {n \in DOMAIN base.byNumber : AccountNumberStoreKey(n) \notin kv.writes}
    IN  [counter |-> IF CounterKey \in kv.writes THEN kv.counter ELSE base.counter,
         accounts |-> [a \in as |-> IF AddressStoreKey(a) \in kv.writes
                                    THEN kv.accounts[a] ELSE base.accounts[a]],
         byNumber |-> [n \in ns |-> IF AccountNumberStoreKey(n) \in kv.writes
                                    THEN kv.byNumber[n] ELSE base.byNumber[n]],
         writes |-> {}]

(***************************************************************************)
(* Transactional scopes.                                                   *)
(***************************************************************************)
\* A caller opens a scope on a snapshot of the persisted store.
Begin(p) ==
    /\ ~IsOpen(p)
    /\ ctx' = [ctx EXCEPT ![p] = [IdleScope EXCEPT !.status = "open", !.view = store]]
    /\ call' = MkCall(p, "Begin")
    /\ UNCHANGED <<store, issued, retired, ncalls>>

\* The scope ends: its writes reach the persisted store unless another scope
\* committed one of the keys it wrote since its snapshot, and then it is
\* discarded.
Commit(p) ==
    /\ IsOpen(p)
    /\ call' = MkCall(p, "Commit")
    /\ UNCHANGED ncalls
    /\ IF ctx[p].view.writes \cap ctx[p].stale = {}
       THEN /\ store' = Merge(store, ctx[p].view)
            /\ ctx' = [q \in Procs |->
                         IF q = p THEN Ended(p, "committed")
                         ELSE IF IsOpen(q)
                              THEN [ctx[q] EXCEPT !.stale = @ \cup ctx[p].view.writes]
                              ELSE ctx[q]]
            /\ issued' = issued \o ctx[p].allocs
            /\ retired' = retired \cup ctx[p].removed
       ELSE /\ ctx' = [ctx EXCEPT ![p] = Ended(p, "conflict")]
            /\ UNCHANGED <<store, issued, retired>>

\* The caller drops its scope without writing it.
Discard(p) ==
    /\ IsOpen(p)
    /\ ctx' = [ctx EXCEPT ![p] = Ended(p, "discarded")]
    /\ call' = MkCall(p, "Discard")
    /\ UNCHANGED <<store, issued, retired, ncalls>>

\* The process restarts: every open scope is lost, the persisted store stays.
Restart ==
    /\ \E p \in Procs : IsOpen(p)
    /\ ctx' = [p \in Procs |-> IdleScope]
    /\ call' = MkCall(0, "Restart")
    /\ UNCHANGED <<store, issued, retired, ncalls>>

(***************************************************************************)
(* Calls of the keeper, each made by a caller inside its open scope.       *)
(***************************************************************************)
CallGetNextAccountNumber(p) ==
    /\ IsOpen(p)
    /\ MayCall
    /\ LET r == GetNextAccountNumber(Scratch(p))
       IN  /\ ctx' = Ran(p, r.store, <<r.ret>>, {}, {})
           /\ call' = [MkCall(p, "GetNextAccountNumber") EXCEPT
                         !.num = r.ret, !.writes = r.store.writes]
    /\ Called
    /\ UNCHANGED <<store, issued, retired>>

CallNewAccountWithAddress(p, addr) ==
    /\ IsOpen(p)
    /\ MayCall
    /\ LET r == NewAccountWithAddress(Scratch(p), addr)
       IN  /\ ctx' = Ran(p, r.store, <<r.ret.accountNumber>>, {}, {})
           /\ call' = [MkCall(p, "NewAccountWithAddress") EXCEPT
                         !.addr = addr, !.acct = r.ret, !.num = r.ret.accountNumber,
                         !.writes = r.store.writes]
    /\ Called
    /\ UNCHANGED <<store, issued, retired>>

CallNewAccount(p, acc) ==
    /\ IsOpen(p)
    /\ MayCall
    /\ LET r == NewAccount(Scratch(p), acc)
       IN  /\ ctx' = Ran(p, r.store, <<r.ret.accountNumber>>, {}, {})
           /\ call' = [MkCall(p, "NewAccount") EXCEPT
                         !.addr = acc.address, !.acct = r.ret, !.num = r.ret.accountNumber,
                         !.writes = r.store.writes]
    /\ Called
    /\ UNCHANGED <<store, issued, retired>>

CallGetAccount(p, addr) ==
    /\ IsOpen(p)
    /\ MayCall
    /\ call' = [MkCall(p, "GetAccount") EXCEPT
                  !.addr = addr, !.acct = GetAccount(Scratch(p), addr)]
    /\ Called
    /\ UNCHANGED <<store, ctx, issued, retired>>

CallSetAccount(p, acc) ==
    /\ IsOpen(p)
    /\ MayCall
    /\ LET kv == SetAccount(Scratch(p), acc)
       IN  /\ ctx' = Ran(p, kv, <<>>, {}, {})
           /\ call' = [MkCall(p, "SetAccount") EXCEPT
                         !.addr = acc.address, !.acct = acc, !.writes = kv.writes]
    /\ Called
    /\ UNCHANGED <<store, issued, retired>>

CallRemoveAccount(p, acc) ==
    /\ IsOpen(p)
    /\ MayCall
    /\ LET kv == RemoveAccount(Scratch(p), acc)
           gone == IF HasAccount(Scratch(p), acc.address)
                   THEN {GetAccount(Scratch(p), acc.address).accountNumber} ELSE {}
       IN  /\ ctx' = Ran(p, kv, <<>>, {}, gone)
           /\ call' = [MkCall(p, "RemoveAccount") EXCEPT
                         !.addr = acc.address, !.acct = acc, !.writes = kv.writes]
    /\ Called
    /\ UNCHANGED <<store, issued, retired>>

CallGetSequence(p, addr) ==
    /\ IsOpen(p)
    /\ MayCall
    /\ LET r == GetSequence(Scratch(p), addr)
       IN  call' = [MkCall(p, "GetSequence") EXCEPT
                      !.addr = addr, !.num = r.val, !.err = r.err]
    /\ Called
    /\ UNCHANGED <<store, ctx, issued, retired>>

CallGetPubKey(p, addr) ==
    /\ IsOpen(p)
    /\ MayCall
    /\ LET r == GetPubKey(Scratch(p), addr)
       IN  call' = [MkCall(p, "GetPubKey") EXCEPT
                      !.addr = addr, !.pubKey = r.val, !.err = r.err]
    /\ Called
    /\ UNCHANGED <<store, ctx, issued, retired>>

CallValidatePermissions(p, macc) ==
    /\ MayCall
    /\ LET r == ValidatePermissions(macc)
       IN  call' = [MkCall(p, "ValidatePermissions") EXCEPT
                      !.name = macc.name, !.acct = macc, !.err = r.err,
                      !.perms = IF r.err = NilError THEN <<>> ELSE <<r.perm>>]
    /\ Called
    /\ UNCHANGED <<store, ctx, issued, retired>>

CallSetModuleAccount(p, macc) ==
    /\ IsOpen(p)
    /\ MayCall
    /\ LET kv == SetModuleAccount(Scratch(p), macc)
       IN  /\ ctx' = Ran(p, kv, <<>>, {}, {})
           /\ call' = [MkCall(p, "SetModuleAccount") EXCEPT
                         !.name = macc.name, !.addr = macc.address, !.acct = macc,
                         !.writes = kv.writes]
    /\ Called
    /\ UNCHANGED <<store, issued, retired>>

\* A panic unwinds to the top of the scope, which is discarded.
CallGetModuleAccount(p, moduleName) ==
    /\ IsOpen(p)
    /\ MayCall
    /\ LET r == GetModuleAccount(Scratch(p), moduleName)
           nums == IF CounterKey \in r.store.writes THEN <<r.macc.accountNumber>> ELSE <<>>
           names == IF r.store.writes # {} THEN {moduleName} ELSE {}
       IN  /\ ctx' = IF r.panicked THEN [ctx EXCEPT ![p] = Ended(p, "panicked")]
                     ELSE Ran(p, r.store, nums, names, {})
           /\ call' = [MkCall(p, "GetModuleAccount") EXCEPT
                         !.name = moduleName, !.acct = r.macc,
                         !.num = r.macc.accountNumber, !.writes = r.store.writes,
                         !.panicked = r.panicked]
    /\ Called
    /\ UNCHANGED <<store, issued, retired>>

CallExportGenesis(p) ==
    /\ IsOpen(p)
    /\ MayCall
    /\ call' = [MkCall(p, "ExportGenesis") EXCEPT !.genesis = ExportGenesis(Scratch(p))]
    /\ Called
    /\ UNCHANGED <<store, ctx, issued, retired>>

\* The state just exported is loaded into a fresh, empty store.
CallInitGenesis(p) ==
    /\ IsOpen(p)
    /\ MayCall
    /\ call.proc = p
    /\ call.op = "ExportGenesis"
    /\ LET r == InitGenesis(EmptyStore, call.genesis)
       IN  call' = [MkCall(p, "InitGenesis") EXCEPT
                      !.genesis = call.genesis, !.imported = r.store,
                      !.writes = r.store.writes, !.panicked = r.panicked]
    /\ Called
    /\ UNCHANGED <<store, ctx, issued, retired>>

CallMarshalAccount(p, accountI) ==
    /\ MayCall
    /\ LET r == MarshalAccount(accountI)
       IN  call' = [MkCall(p, "MarshalAccount") EXCEPT
                      !.acct = accountI, !.bz = r.bz, !.err = r.err]
    /\ Called
    /\ UNCHANGED <<store, ctx, issued, retired>>

\* The bytes decoded are those the last MarshalAccount returned (the account
\* it encoded stays in the record of the call) or foreign ones.
CallUnmarshalAccount(p, bz) ==
    /\ MayCall
    /\ LET r == UnmarshalAccount(bz)
           mine == call.op = "MarshalAccount" /\ call.err = NilError /\ call.bz = bz
       IN  call' = [MkCall(p, "UnmarshalAccount") EXCEPT
                      !.acct = IF mine THEN call.acct ELSE NoAccount,
                      !.bz = bz, !.decoded = r.acc, !.err = r.err]
    /\ Called
    /\ UNCHANGED <<store, ctx, issued, retired>>

\* GetModuleAddress takes no context: it reads the permission table only.
CallGetModuleAddress(p, moduleName) ==
    /\ MayCall
    /\ call' = [MkCall(p, "GetModuleAddress") EXCEPT
                  !.name = moduleName, !.addr = GetModuleAddress(moduleName)]
    /\ Called
    /\ UNCHANGED <<store, ctx, issued, retired>>

CallGetModuleAccountAndPermissions(p, moduleName) ==
    /\ IsOpen(p)
    /\ MayCall
    /\ LET r == GetModuleAccountAndPermissions(Scratch(p), moduleName)
           nums == IF CounterKey \in r.store.writes THEN <<r.macc.accountNumber>> ELSE <<>>
           names == IF r.store.writes # {} THEN {moduleName} ELSE {}
       IN  /\ ctx' = IF r.panicked THEN [ctx EXCEPT ![p] = Ended(p, "panicked")]
                     ELSE Ran(p, r.store, nums, names, {})
           /\ call' = [MkCall(p, "GetModuleAccountAndPermissions") EXCEPT
                         !.name = moduleName, !.acct = r.macc,
                         !.num = r.macc.accountNumber, !.perms = r.perms,
                         !.writes = r.store.writes, !.panicked = r.panicked]
    /\ Called
    /\ UNCHANGED <<store, issued, retired>>

CallGroupMemberToPulsar(p, groupMember) ==
    /\ call' = [MkCall(p, "GroupMemberToPulsar") EXCEPT
                  !.gm = groupMember, !.pulsar = GroupMemberToPulsar(groupMember)]
    /\ UNCHANGED <<store, ctx, issued, retired, ncalls>>

\* The row converted back is the one the last GroupMemberToPulsar returned;
\* the GroupMember it was made from stays in the record of the call.
CallGroupMemberFromPulsar(p) ==
    /\ call.proc = p
    /\ call.op = "GroupMemberToPulsar"
    /\ call' = [MkCall(p, "GroupMemberFromPulsar") EXCEPT
                  !.gm = call.gm, !.pulsar = call.pulsar,
                  !.gmOut = GroupMemberFromPulsar(call.pulsar)]
    /\ UNCHANGED <<store, ctx, issued, retired, ncalls>>

(***************************************************************************)
(* Specifications.                                                         *)
(***************************************************************************)
\* One caller at a time: every operation, scope after scope.
Next ==
    \/ Begin(1)
    \/ Commit(1)
    \/ Restart
    \/ CallGetNextAccountNumber(1)
    \/ \E addr \in Addrs : CallNewAccountWithAddress(1, addr)
    \/ \E addr \in Addrs : CallGetAccount(1, addr)
    \/ \E acc \in Held(1) : CallSetAccount(1, acc)
    \/ \E acc \in Held(1) : CallRemoveAccount(1, acc)
    \/ \E addr \in Addrs : CallGetSequence(1, addr)
    \/ \E addr \in Addrs : CallGetPubKey(1, addr)
    \/ \E macc \in HeldModuleAccounts(1) : CallValidatePermissions(1, macc)
    \/ \E macc \in SavedModuleAccounts : CallSetModuleAccount(1, macc)
    \/ \E n \in ModuleNames : CallGetModuleAccount(1, n)

Spec == Init /\ [][Next]_vars

\* Callers in independent scopes, racing on the counter and on the module
\* account.
NextConcurrent ==
    \E p \in Procs :
        \/ Begin(p)
        \/ Commit(p)
        \/ Discard(p)
        \/ ncalls < MaxRaceCalls /\ CallGetNextAccountNumber(p)
        \/ ncalls < MaxRaceCalls /\ \E n \in DOMAIN maccPerms : CallGetModuleAccount(p, n)

SpecConcurrent == Init /\ [][NextConcurrent]_vars

\* The allocator on a store an earlier run of the process left.
NextAllocator ==
    \/ Begin(1)
    \/ Commit(1)
    \/ Restart
    \/ CallGetNextAccountNumber(1)

SpecPersisted == InitPersisted /\ [][NextAllocator]_vars

\* Callers validating module accounts they build.
NextPermissions ==
    \E p \in Procs, macc \in BuiltModuleAccounts : CallValidatePermissions(p, macc)

SpecPermissions == Init /\ [][NextPermissions]_vars

\* One caller whose accounts get their numbers from the allocator only: it
\* saves what NewAccount, NewAccountWithAddress, GetAccount or
\* GetModuleAccount handed it.
NextAccounts ==
    \/ Begin(1)
    \/ Commit(1)
    \/ Restart
    \/ \E addr \in Addrs : CallNewAccountWithAddress(1, addr)
    \/ \E acc \in Prototypes \cup Held(1) : CallNewAccount(1, acc)
    \/ \E addr \in Addrs : CallGetAccount(1, addr)
    \/ \E acc \in Held(1) : CallSetAccount(1, acc)
    \/ \E acc \in Held(1) : CallRemoveAccount(1, acc)
    \/ \E n \in ModuleNames : CallGetModuleAccount(1, n)

SpecAccounts == Init /\ [][NextAccounts]_vars

\* One caller that fills a store, exports it and loads the export into a
\* fresh store.
NextGenesis ==
    \/ Begin(1)
    \/ Commit(1)
    \/ \E addr \in Addrs : CallNewAccountWithAddress(1, addr)
    \/ \E acc \in Held(1) : CallSetAccount(1, acc)
    \/ \E acc \in Held(1) : CallRemoveAccount(1, acc)
    \/ \E n \in DOMAIN maccPerms : CallGetModuleAccount(1, n)
    \/ CallExportGenesis(1)
    \/ CallInitGenesis(1)

SpecGenesis == Init /\ [][NextGenesis]_vars

\* One caller saving accounts it numbered by hand, over and over.
NextOverwrite ==
    \/ Begin(1)
    \/ Commit(1)
    \/ \E acc \in NumberedAccounts : CallSetAccount(1, acc)
    \/ \E macc \in {acc \in NumberedAccounts : acc.kind = "module"} : CallSetModuleAccount(1, macc)
    \/ \E addr \in Addrs : CallGetAccount(1, addr)

SpecOverwrite == Init /\ [][NextOverwrite]_vars

\* A caller encoding accounts and decoding what it got.
NextCodec ==
    \/ \E acc \in CodecAccounts : CallMarshalAccount(1, acc)
    \/ \E bz \in (IF call.op = "MarshalAccount" /\ call.err = NilError THEN {call.bz} ELSE {})
                    \cup ForeignBytes : CallUnmarshalAccount(1, bz)

SpecCodec == Init /\ [][NextCodec]_vars

\* One caller working with module accounts: by name, configured or not, over
\* stores that hold module accounts it saved itself and base accounts.
NextModules ==
    \/ Begin(1)
    \/ Commit(1)
    \/ \E n \in ModuleNames : CallGetModuleAddress(1, n)
    \/ \E n \in ModuleNames : CallGetModuleAccountAndPermissions(1, n)
    \/ \E n \in ModuleNames : CallGetModuleAccount(1, n)
    \/ \E macc \in SavedModuleAccounts : CallSetModuleAccount(1, macc)
    \/ \E addr \in Addrs : CallNewAccountWithAddress(1, addr)
    \/ \E acc \in Held(1) : CallSetAccount(1, acc)

SpecModules == Init /\ [][NextModules]_vars

\* A caller converting group members to table rows and back.
NextGroup ==
    \/ \E g \in GroupMembers : CallGroupMemberToPulsar(1, g)
    \/ CallGroupMemberFromPulsar(1)

SpecGroup == Init /\ [][NextGroup]_vars

(***************************************************************************)
(* Properties.                                                             *)
(***************************************************************************)
\* The permissions maccPerms declares for a name; none for a name it does
\* not hold.
DeclaredFor(name) == IF name \in DOMAIN maccPerms THEN Range(maccPerms[name]) ELSE {}

\* The account numbers handed out so far as caller p sees them: those of
\* the committed scopes, then those of its open scope.
HandedOut(p) == issued \o (IF IsOpen(p) THEN ctx[p].allocs ELSE <<>>)

\* C1: starting from a store with no counter, the k-th allocation returns
\* k - 1, whatever other operations, commits and restarts lie in between
\* (an allocation of a scope that is discarded is undone with the scope).
AllocatorSequence ==
    \A p \in Procs : \A k \in DOMAIN HandedOut(p) : HandedOut(p)[k] = k - 1

\* Three allocations spread over more than one scope.
AllocatorSequenceWitness ==
    /\ Len(issued) >= 2
    /\ IsOpen(1)
    /\ ctx[1].allocs # <<>>
    /\ call.op = "GetNextAccountNumber"

\* C2: no two allocations of committed scopes were handed the same number,
\* also when their scopes ran concurrently.
NoDuplicateIssued ==
    \A i, j \in DOMAIN issued : i # j => issued[i] # issued[j]

\* Two concurrent scopes were handed the same number; one committed and the
\* other was discarded at its commit.
NoDuplicateIssuedWitness ==
    \E p, q \in Procs :
        /\ p # q
        /\ ctx[p].status = "committed"
        /\ ctx[q].status = "conflict"
        /\ Range(ctx[p].allocs) \cap Range(ctx[q].allocs) # {}

\* C3: GetModuleAccount for a configured name, called again right after a
\* call that returned, returns the same address and account number and
\* writes nothing: the counter and every entry of the view stay as they are.
ModuleAccountIdempotent ==
    [][\A p \in Procs, n \in DOMAIN maccPerms :
          (/\ call.proc = p
           /\ call.op = "GetModuleAccount"
           /\ call.name = n
           /\ ~call.panicked
           /\ CallGetModuleAccount(p, n))
          => (/\ ~call'.panicked
              /\ call'.acct.address = call.acct.address
              /\ call'.acct.accountNumber = call.acct.accountNumber
              /\ call'.writes = {}
              /\ ctx'[p].view = ctx[p].view)]_vars

\* The second of two calls in a row, the first of which created the account.
ModuleAccountIdempotentWitness ==
    /\ ncalls = 2
    /\ call.op = "GetModuleAccount"
    /\ call.name \in DOMAIN maccPerms
    /\ call.name \in ctx[call.proc].created
    /\ call.writes = {}
    /\ call.acct.kind = "module"

\* C4: ValidatePermissions returns no error exactly when every permission of
\* the account is declared for the account's name in maccPerms; for a name
\* maccPerms does not hold, nothing is declared.
ValidatePermissionsIff ==
    call.op = "ValidatePermissions" =>
        ((call.err = NilError) <=>
            (Range(call.acct.permissions) \subseteq DeclaredFor(call.acct.name)))

\* An account of a configured name with a declared and an undeclared
\* permission is rejected.
ValidatePermissionsIffWitness ==
    /\ call.op = "ValidatePermissions"
    /\ call.acct.name \in DOMAIN maccPerms
    /\ Len(call.acct.permissions) = 2
    /\ call.acct.permissions[1] \in DeclaredFor(call.acct.name)
    /\ call.acct.permissions[2] \notin DeclaredFor(call.acct.name)
    /\ call.err = ErrInvalidPermission

\* C5: GetSequence and GetPubKey return the unknown-address error exactly
\* when no account is stored at the address, and otherwise the stored
\* account's sequence / public key with no error.
SequenceAndPubKeyLookup ==
    call.op \in {"GetSequence", "GetPubKey"} =>
        LET kv == ctx[call.proc].view
            stored == call.addr \in DOMAIN kv.accounts
        IN  /\ (call.err = ErrUnknownAddress) <=> ~stored
            /\ stored =>
                 /\ call.err = NilError
                 /\ call.op = "GetSequence" => call.num = kv.accounts[call.addr].sequence
                 /\ call.op = "GetPubKey" => call.pubKey = kv.accounts[call.addr].pubKey

\* A sequence asked for at an address that holds no account, in a store
\* that holds another account.
SequenceAndPubKeyLookupWitness ==
    /\ call.op = "GetSequence"
    /\ call.err = ErrUnknownAddress
    /\ DOMAIN ctx[call.proc].view.accounts # {}

\* C6: GetModuleAccount for a configured name whose derived address holds an
\* account that is no module account panics, having written nothing: the
\* call returns no account, the scope is discarded and the persisted store,
\* its counter included, is as before.
ModuleAccountTypeMismatchPanics ==
    [][\A p \in Procs, n \in DOMAIN maccPerms :
          (/\ IsOpen(p)
           /\ HasAccount(ctx[p].view, NewModuleAddress(n))
           /\ ctx[p].view.accounts[NewModuleAddress(n)].kind # "module"
           /\ CallGetModuleAccount(p, n))
          => (/\ call'.panicked
              /\ call'.acct = NoAccount
              /\ call'.writes = {}
              /\ ctx'[p].status = "panicked"
              /\ store' = store)]_vars

\* The call panicked in a scope that had allocated a number and saved a base
\* account before it.
ModuleAccountTypeMismatchPanicsWitness ==
    /\ call.op = "GetModuleAccount"
    /\ call.panicked
    /\ ctx[call.proc].status = "panicked"
    /\ ctx[call.proc].allocs # <<>>

\* C7: every module account of the persisted store carries only permissions
\* declared for its name in maccPerms.
StoredModulePermissionsDeclared ==
    \A a \in DOMAIN store.accounts :
        store.accounts[a].kind = "module" =>
            Range(store.accounts[a].permissions) \subseteq DeclaredFor(store.accounts[a].name)

\* C8: the number the next allocation returns differs from every number
\* handed out before, also after the account that received one was removed;
\* RemoveAccount does not write the counter.
NumbersNeverReused ==
    /\ \A k \in DOMAIN issued : issued[k] # CounterValue(store)
    /\ \A p \in Procs :
          IsOpen(p) => \A k \in DOMAIN HandedOut(p) : HandedOut(p)[k] # CounterValue(ctx[p].view)
    /\ call.op = "RemoveAccount" => CounterKey \notin call.writes

\* An allocation made after the account that had received an allocated
\* number was removed.
NumbersNeverReusedWitness ==
    /\ call.op = "GetNextAccountNumber"
    /\ \E n \in retired \cup ctx[call.proc].removed :
          /\ n \in Range(HandedOut(call.proc))
          /\ n # call.num
          /\ \A a \in DOMAIN ctx[call.proc].view.accounts :
                ctx[call.proc].view.accounts[a].accountNumber # n

\* C9: every GetNextAccountNumber call returns a number greater than every
\* number returned before it and leaves a counter greater than the number it
\* returned, whatever counter the store held, the largest one included.
AllocatorStrictlyIncreasing ==
    call.op = "GetNextAccountNumber" =>
        LET p == call.proc
            s == HandedOut(p)
        IN  /\ CounterValue(ctx[p].view) > call.num
            /\ \A k \in 1 .. (Len(s) - 1) : s[k] < call.num

\* C10: a scope that created the module account of a name commits only onto
\* a persisted store that holds no account at the module's address, so of
\* two concurrent creations one commits; the commit leaves one module
\* account there and the counter advanced by the numbers the scope was
\* handed.
SingleModuleAccountCreation ==
    [][\A p \in Procs, n \in DOMAIN maccPerms :
          (/\ IsOpen(p)
           /\ n \in ctx[p].created
           /\ Commit(p)
           /\ ctx'[p].status = "committed")
          => (/\ ~HasAccount(store, NewModuleAddress(n))
              /\ HasAccount(store', NewModuleAddress(n))
              /\ store'.accounts[NewModuleAddress(n)].kind = "module"
              /\ store'.accounts[NewModuleAddress(n)].accountNumber \in Range(ctx[p].allocs)
              /\ CounterValue(store') = CounterValue(store) + Len(ctx[p].allocs))]_vars

\* Two concurrent scopes created the account of the same name; one committed
\* and the other was discarded at its commit.
SingleModuleAccountCreationWitness ==
    \E p, q \in Procs, n \in DOMAIN maccPerms :
        /\ p # q
        /\ ctx[p].status = "committed"
        /\ ctx[q].status = "conflict"
        /\ n \in ctx[p].created \cap ctx[q].created
        /\ HasAccount(store, NewModuleAddress(n))

\* C11: a NewAccountWithAddress or NewAccount call hands out the counter of
\* the view and advances it, and persists nothing else: the stored accounts
\* and the number -> address index of the view are as before (so HasAccount
\* is, at every address) and the call wrote the counter key only. An address
\* starts to resolve in an open scope only in a step that writes the entry
\* of that address: a SetAccount, directly or through SetModuleAccount or
\* the creation in GetModuleAccount.
NewAccountDoesNotPersist ==
    [][\A p \in Procs :
          /\ (call'.proc = p /\ ncalls' = ncalls + 1
                /\ call'.op \in {"NewAccountWithAddress", "NewAccount"})
             => (/\ call'.acct.accountNumber = CounterValue(ctx[p].view)
                 /\ CounterValue(ctx'[p].view) = CounterValue(ctx[p].view) + 1
                 /\ ctx'[p].view.accounts = ctx[p].view.accounts
                 /\ ctx'[p].view.byNumber = ctx[p].view.byNumber
                 /\ \A a \in Addrs : HasAccount(ctx'[p].view, a) = HasAccount(ctx[p].view, a)
                 /\ call'.writes = {CounterKey}
                 /\ store' = store)
          /\ \A a \in Addrs :
                (IsOpen(p) /\ ctx'[p].status = "open"
                   /\ ~HasAccount(ctx[p].view, a) /\ HasAccount(ctx'[p].view, a))
                => (/\ call'.op \in {"SetAccount", "SetModuleAccount", "GetModuleAccount"}
                    /\ AddressStoreKey(a) \in call'.writes)]_vars

\* A module account numbered by NewAccount, after an earlier allocation, at
\* an address that holds no account.
NewAccountDoesNotPersistWitness ==
    /\ call.op = "NewAccount"
    /\ call.acct.kind = "module"
    /\ call.num > 0
    /\ ~HasAccount(ctx[call.proc].view, call.acct.address)
    /\ GetAccountAddressByID(ctx[call.proc].view, call.num) = NilAddress

\* C12: loading what ExportGenesis returned into a fresh, empty store does
\* not fail and leaves that store with the accounts of the exported store,
\* field for field, and with the counter of the exported store, so that the
\* next allocation returns the same number in both.
GenesisRoundTrip ==
    call.op = "InitGenesis" =>
        /\ ~call.panicked
        /\ call.imported.accounts = ctx[call.proc].view.accounts
        /\ CounterValue(call.imported) = CounterValue(ctx[call.proc].view)

\* C13: when a SetAccount (or SetModuleAccount) of r2 follows one of r1 at
\* the same address, GetAccount at the address returns r2, the index entry
\* of r1's account number still resolves to the address, and the entry of
\* every other address is as before.
LastWriteWins ==
    [][\A p \in Procs :
          (/\ call.proc = p
           /\ call.op \in {"SetAccount", "SetModuleAccount"}
           /\ call'.proc = p
           /\ call'.op \in {"SetAccount", "SetModuleAccount"}
           /\ ncalls' = ncalls + 1
           /\ call'.acct.address = call.acct.address)
          => (/\ GetAccount(ctx'[p].view, call.acct.address) = call'.acct
              /\ GetAccountAddressByID(ctx'[p].view, call.acct.accountNumber) = call.acct.address
              /\ GetAccountAddressByID(ctx'[p].view, call'.acct.accountNumber) = call.acct.address
              /\ \A a \in Addrs \ {call.acct.address} :
                    GetAccount(ctx'[p].view, a) = GetAccount(ctx[p].view, a))]_vars

\* Two saves in a row at one address, of a base account and then of a module
\* account with another account number: the index holds both numbers.
LastWriteWinsWitness ==
    /\ ncalls = 2
    /\ call.op = "SetModuleAccount"
    /\ IsOpen(call.proc)
    /\ DOMAIN ctx[call.proc].view.accounts = {call.addr}
    /\ \E n \in DOMAIN ctx[call.proc].view.byNumber :
          /\ n # call.acct.accountNumber
          /\ ctx[call.proc].view.byNumber[n] = call.addr

ModuleAccountCreatedOnFirstAccess ==
    [][\A p \in Procs, n \in DOMAIN maccPerms :
          (/\ IsOpen(p)
           /\ ~HasAccount(ctx[p].view, GetModuleAddress(n))
           /\ CallGetModuleAccount(p, n))
          => LET kv == ctx[p].view
                 macc == call'.acct
             IN  /\ ~call'.panicked
                 /\ macc.kind = "module"
                 /\ macc.name = n
                 /\ macc.address = GetModuleAddress(n)
                 /\ macc.permissions = maccPerms[n]
                 /\ macc.accountNumber = CounterValue(kv)
                 /\ kv.counter = <<>> => macc.accountNumber = 0
                 /\ ctx'[p].allocs = Append(ctx[p].allocs, macc.accountNumber)
                 /\ CounterValue(ctx'[p].view) = CounterValue(kv) + 1
                 /\ GetAccount(ctx'[p].view, GetModuleAddress(n)) = macc
                 /\ GetAccountAddressByID(ctx'[p].view, macc.accountNumber) = GetModuleAddress(n)
                 /\ call'.writes = {CounterKey, AddressStoreKey(macc.address),
                                    AccountNumberStoreKey(macc.accountNumber)}
                 /\ ValidatePermissions(macc).err = NilError]_vars

\* The first call on a fresh store created the account of fee_collector with
\* number 0, and ValidatePermissions was then called on it.
ModuleAccountCreatedOnFirstAccessWitness ==
    /\ ncalls = 2
    /\ call.op = "ValidatePermissions"
    /\ call.err = NilError
    /\ call.acct.kind = "module"
    /\ call.acct.accountNumber = 0
    /\ call.acct.permissions = <<"burner">>
    /\ IsOpen(call.proc)
    /\ call.acct.name \in ctx[call.proc].created
    /\ GetAccount(ctx[call.proc].view, call.acct.address) = call.acct
    /\ store = EmptyStore

\* C16: for a module name the permission table does not hold,
\* GetModuleAddress returns the nil address, GetModuleAccountAndPermissions
\* a nil account and an empty permission list, GetModuleAccount a nil
\* account; none panics, none writes: the scope, its counter and accounts
\* included, and the persisted store are as before, and no number is handed
\* out.
UnknownModuleName ==
    [][\A p \in Procs, n \in ModuleNames \ DOMAIN maccPerms :
          /\ CallGetModuleAddress(p, n) => call'.addr = NilAddress
          /\ CallGetModuleAccountAndPermissions(p, n)
                => (call'.acct = NoAccount /\ call'.perms = <<>>)
          /\ CallGetModuleAccount(p, n) => call'.acct = NoAccount
          /\ (\/ CallGetModuleAddress(p, n)
              \/ CallGetModuleAccountAndPermissions(p, n)
              \/ CallGetModuleAccount(p, n))
             => (/\ ~call'.panicked
                 /\ call'.writes = {}
                 /\ ctx' = ctx
                 /\ store' = store
                 /\ issued' = issued)]_vars

\* GetModuleAccountAndPermissions asked for a name that is not configured,
\* in a scope that holds accounts and a counter.
UnknownModuleNameWitness ==
    /\ call.op = "GetModuleAccountAndPermissions"
    /\ call.name \notin DOMAIN maccPerms
    /\ call.acct = NoAccount
    /\ IsOpen(call.proc)
    /\ DOMAIN ctx[call.proc].view.accounts # {}
    /\ CounterValue(ctx[call.proc].view) > 0

\* C17: while stored accounts get their account numbers from the allocator
\* only (NewAccount, NewAccountWithAddress, GetModuleAccount), two accounts
\* stored at different addresses have different account numbers, in the
\* persisted store and in the view of every open scope.
DistinctAccountNumbers ==
    LET Distinct(kv) ==
            \A a, b \in DOMAIN kv.accounts :
                a # b => kv.accounts[a].accountNumber # kv.accounts[b].accountNumber
    IN  /\ Distinct(store)
        /\ \A p \in Procs : IsOpen(p) => Distinct(ctx[p].view)

\* The persisted store holds a base account and a module account, and the
\* open scope has saved one of them again under a further number.
DistinctAccountNumbersWitness ==
    /\ \E a, b \in DOMAIN store.accounts :
          store.accounts[a].kind = "base" /\ store.accounts[b].kind = "module"
    /\ IsOpen(1)
    /\ \E a \in DOMAIN store.accounts :
          /\ HasAccount(ctx[1].view, a)
          /\ ctx[1].view.accounts[a].accountNumber # store.accounts[a].accountNumber

\* C18: a GetNextAccountNumber call writes the counter entry only: every
\* address -> account entry and every number -> address entry of the view is
\* the same after the call as before it, and the persisted store is
\* untouched.
AllocatorWritesCounterOnly ==
    [][\A p \in Procs :
          CallGetNextAccountNumber(p)
          => (/\ ctx'[p].view.accounts = ctx[p].view.accounts
              /\ ctx'[p].view.byNumber = ctx[p].view.byNumber
              /\ call'.writes = {CounterKey}
              /\ ctx'[p].view.writes = ctx[p].view.writes \cup {CounterKey}
              /\ store' = store)]_vars

\* A number handed out in a view that holds an account and already has an
\* index entry for that very number.
AllocatorWritesCounterOnlyWitness ==
    /\ call.op = "GetNextAccountNumber"
    /\ IsOpen(call.proc)
    /\ DOMAIN ctx[call.proc].view.accounts # {}
    /\ call.num \in DOMAIN ctx[call.proc].view.byNumber
    /\ ctx[call.proc].view.byNumber[call.num] # NilAddress

\* C19: GetModuleAccountAndPermissions for a configured name, when it
\* returns, returns the permission list maccPerms declares for the name:
\* when the call created the account and when it found a stored module
\* account, whatever permissions that stored account carries.
ReturnedPermissionsFromTable ==
    (/\ call.op = "GetModuleAccountAndPermissions"
     /\ call.name \in DOMAIN maccPerms
     /\ ~call.panicked)
    => (/\ call.perms = maccPerms[call.name]
        /\ call.acct.kind = "module"
        /\ call.acct.address = GetModuleAddress(call.name))

\* The call found a stored module account that carries a permission the
\* table does not declare.
ReturnedPermissionsFromTableWitness ==
    /\ call.op = "GetModuleAccountAndPermissions"
    /\ call.name \in DOMAIN maccPerms
    /\ call.writes = {}
    /\ call.acct.kind = "module"
    /\ call.acct.permissions # call.perms
    /\ call.perms = <<"burner">>

\* C20: GroupMemberFromPulsar of what GroupMemberToPulsar returned for a
\* GroupMember g with a Member equals g in GroupId, in MemberAddress and in
\* every field of Member, also when g.MemberAddress is not g.Member.Address.
GroupMemberRoundTrip ==
    call.op = "GroupMemberFromPulsar" =>
        /\ call.gmOut.groupId = call.gm.groupId
        /\ call.gmOut.memberAddress = call.gm.memberAddress
        /\ call.gmOut.member = call.gm.member

====
